---- MODULE Spec2Model ----
(***************************************************************************)
(* Model of displaySpinnakerFramesOpenCV.cpp: the main loop that fills the *)
(* static frame buffer img_raw with rand() % 255, wraps it in a Mat,       *)
(* shows it, and keeps the frames-per-second tally.                        *)
(*                                                                         *)
(* Time is the value steady_clock::now() returns, in nanoseconds since the *)
(* first reading (line 51).  The clock is monotonic: every reading is at   *)
(* least the previous one; how far it advanced is the environment's choice.*)
(***************************************************************************)
EXTENDS Integers, Sequences, FiniteSets, TLC

VARIABLES
    pc,                                 \* position of main: "test", "fill", "present", "clock", "rate", "done"
    streaming,                          \* line 40
    ret,                                \* exit code of main, -1 while it runs
    img_raw,                            \* line 36, indexed 0 .. cols*rows-1
    shown,                              \* content of the window "PtGrey Live Feed"
    writes,                             \* indices written by the latest fill, in order
    clock,                              \* latest value returned by steady_clock::now()
    time_of_last_fps_calculation,       \* line 51
    frames_since_last_fps_calculation,  \* line 52
    current_time,                       \* line 97
    diff_ns,                            \* line 99
    iter,                               \* iterations begun
    steps,                              \* how often each step of the body has run
    printed,                            \* the lines written to cout, with when and why
    stopped                             \* where main was when the flag was cleared from outside

vars == <<pc, streaming, ret, img_raw, shown, writes, clock,
          time_of_last_fps_calculation, frames_since_last_fps_calculation,
          current_time, diff_ns, iter, steps, printed, stopped>>

frameVars == <<img_raw, shown, writes>>
rateVars  == <<clock, time_of_last_fps_calculation, frames_since_last_fps_calculation,
               current_time, diff_ns, printed>>

----------------------------------------------------------------------------
(* Program constants *)

ns_per_second == 1000000000

(* Frame dimensions.  The program has cols = 1000, rows = 400; the model   *)
(* keeps the code parametric in them and checks small frames.              *)
cols == 2
rows == 1

(* Bounds of the exploration *)
MaxFrames == 4          \* iterations explored under Spec
MaxUniformFrames == 52  \* iterations explored under SpecUniform
MaxStopFrames == 2      \* iterations explored under SpecExt
MaxSlack == 2           \* the clock is explored up to 2 s + MaxSlack ns
RandMax == 511          \* the generator's outputs are 0 .. RandMax

MaxClock == 2 * ns_per_second + MaxSlack

(* How far the clock may have advanced between two readings: not at all,   *)
(* half a second, exactly one second, one nanosecond more than a second.   *)
Deltas == {0, ns_per_second \div 2, ns_per_second, ns_per_second + 1}

(* rand() returns a value of 0 .. RAND_MAX *)
RandRange == 0 .. RandMax
(* the outputs of rand() the exploration draws *)
RandDraws == {254, 255}

FrameIndex == 0 .. (cols * rows - 1)

----------------------------------------------------------------------------
(* Frame source: lines 74-77 *)

(* img_raw[i] = rand() % 255, stored in a uint8_t *)
Pixel(r) == (r % 255) % 256

(* the loop condition i < cols*rows *)
FillBound_short == cols * rows - 1
FillBound == cols * rows

(* for(uint i = 0; i < cols*rows; i++) img_raw[i] = rand() % 255;          *)
(* draws[i] is what the i-th call of rand() returns; the result is the     *)
(* buffer and the indices written, in order.                               *)
RECURSIVE FillLoop(_, _, _, _)
FillLoop(buf, i, draws, ws) ==
    IF i < FillBound
    THEN FillLoop([buf EXCEPT ![i] = Pixel(draws[i])], i + 1, draws, Append(ws, i))
    ELSE [buf |-> buf, ws |-> ws]

----------------------------------------------------------------------------
(* Display sink: lines 88-93 *)

(* Mat img(rows, cols, CV_8UC1, img_raw): a header over the caller's data, *)
(* one byte per element, rows laid out one after the other.                *)
MatWrap == [rows |-> rows, cols |-> cols, step |-> cols]

(* imshow: the window shows the elements the header describes *)
Imshow(view, buf) ==
    [k \in 0 .. (view.rows * view.cols - 1) |->
        buf[(k \div view.cols) * view.step + (k % view.cols)]]

----------------------------------------------------------------------------
(* Rate monitor: lines 103-112 *)

(* What the if/else does with the elapsed time d, the tally n, the last    *)
(* report's timestamp and t, the value now() returns on line 105.          *)
RateStep_ge(d, n, last, t) ==
    IF d >= ns_per_second
    THEN [print |-> <<n>>, tally |-> 0, stamp |-> t]
    ELSE [print |-> <<>>, tally |-> n + 1, stamp |-> last]
RateStep_noreset(d, n, last, t) ==
    IF d > ns_per_second
    THEN [print |-> <<n>>, tally |-> n, stamp |-> t]
    ELSE [print |-> <<>>, tally |-> n + 1, stamp |-> last]
RateStep_nostamp(d, n, last, t) ==
    IF d > ns_per_second
    THEN [print |-> <<n>>, tally |-> 0, stamp |-> last]
    ELSE [print |-> <<>>, tally |-> n + 1, stamp |-> last]
RateStep_countsboth(d, n, last, t) ==
    IF d > ns_per_second
    THEN [print |-> <<n>>, tally |-> 1, stamp |-> t]
    ELSE [print |-> <<>>, tally |-> n + 1, stamp |-> last]
RateStep(d, n, last, t) ==
    IF d > ns_per_second
    THEN [print |-> <<n>>, tally |-> 0, stamp |-> t]
    ELSE [print |-> <<>>, tally |-> n + 1, stamp |-> last]

----------------------------------------------------------------------------
(* State after the declarations of lines 36-52 *)

InitStreaming == TRUE

Init ==
    /\ pc = "test"
    /\ streaming = InitStreaming
    /\ ret = -1
    /\ img_raw = [k \in FrameIndex |-> 0]
    /\ shown = <<>>
    /\ writes = <<>>
    /\ clock = 0
    /\ time_of_last_fps_calculation = 0
    /\ frames_since_last_fps_calculation = 0
    /\ current_time = 0
    /\ diff_ns = 0
    /\ iter = 0
    /\ steps = [fill |-> 0, present |-> 0, rate |-> 0]
    /\ printed = <<>>
    /\ stopped = [pc |-> "none", iter |-> -1]

----------------------------------------------------------------------------
(* The steps of main *)

(* line 57, and line 117 when the flag is false; max bounds the exploration *)
LoopTestUpTo_nocheck(max) ==
    /\ pc = "test"
    /\ iter < max
    /\ pc' = "fill"
    /\ iter' = iter + 1
    /\ UNCHANGED <<streaming, ret, steps, stopped>>
    /\ UNCHANGED frameVars
    /\ UNCHANGED rateVars
LoopTestUpTo(max) ==
    /\ pc = "test"
    /\ IF streaming
       THEN /\ iter < max
            /\ pc' = "fill"
            /\ iter' = iter + 1
            /\ ret' = ret
       ELSE /\ pc' = "done"
            /\ ret' = 0
            /\ iter' = iter
    /\ UNCHANGED <<streaming, steps, stopped>>
    /\ UNCHANGED frameVars
    /\ UNCHANGED rateVars

(* lines 74-77 *)
Fill ==
    /\ pc = "fill"
    /\ \E draws \in [FrameIndex -> RandDraws] :
          LET f == FillLoop(img_raw, 0, draws, <<>>)
          IN  /\ img_raw' = f.buf
              /\ writes' = f.ws
    /\ steps' = [steps EXCEPT !.fill = @ + 1]
    /\ pc' = "present"
    /\ UNCHANGED <<streaming, ret, shown, iter, stopped>>
    /\ UNCHANGED rateVars

(* lines 88-93 *)
Present_clears ==
    /\ pc = "present"
    /\ shown' = Imshow(MatWrap, img_raw)
    /\ img_raw' = [k \in FrameIndex |-> 0]
    /\ steps' = [steps EXCEPT !.present = @ + 1]
    /\ pc' = "clock"
    /\ UNCHANGED <<streaming, ret, writes, iter, stopped>>
    /\ UNCHANGED rateVars
Present ==
    /\ pc = "present"
    /\ shown' = Imshow(MatWrap, img_raw)
    /\ steps' = [steps EXCEPT !.present = @ + 1]
    /\ pc' = "clock"
    /\ UNCHANGED <<streaming, ret, img_raw, writes, iter, stopped>>
    /\ UNCHANGED rateVars

(* lines 97-99; T is what now() may return *)
ReadClockFrom(T) ==
    /\ pc = "clock"
    /\ \E t \in T :
          /\ t >= clock
          /\ clock' = t
          /\ current_time' = t
          /\ diff_ns' = t - time_of_last_fps_calculation
    /\ pc' = "rate"
    /\ UNCHANGED <<streaming, ret, iter, steps, stopped,
                   time_of_last_fps_calculation, frames_since_last_fps_calculation, printed>>
    /\ UNCHANGED frameVars

(* lines 103-112; T is what now() may return on line 105 *)
RateUpdateFrom_stops(T) ==
    /\ pc = "rate"
    /\ \E t \in T :
          /\ t >= clock
          /\ LET r == RateStep(diff_ns, frames_since_last_fps_calculation,
                               time_of_last_fps_calculation, t)
             IN  /\ frames_since_last_fps_calculation' = r.tally
                 /\ time_of_last_fps_calculation' = r.stamp
                 /\ IF r.print # <<>>
                    THEN /\ printed' = Append(printed, [fps |-> r.print[1], at |-> t,
                                                        frame |-> iter, diff |-> diff_ns])
                         /\ clock' = t
                         /\ streaming' = FALSE
                    ELSE /\ printed' = printed
                         /\ clock' = clock
                         /\ streaming' = streaming
    /\ steps' = [steps EXCEPT !.rate = @ + 1]
    /\ pc' = "test"
    /\ UNCHANGED <<ret, iter, stopped, current_time, diff_ns>>
    /\ UNCHANGED frameVars
RateUpdateFrom(T) ==
    /\ pc = "rate"
    /\ \E t \in T :
          /\ t >= clock
          /\ LET r == RateStep(diff_ns, frames_since_last_fps_calculation,
                               time_of_last_fps_calculation, t)
             IN  /\ frames_since_last_fps_calculation' = r.tally
                 /\ time_of_last_fps_calculation' = r.stamp
                 /\ IF r.print # <<>>
                    THEN /\ printed' = Append(printed, [fps |-> r.print[1], at |-> t,
                                                        frame |-> iter, diff |-> diff_ns])
                         /\ clock' = t
                    ELSE /\ printed' = printed
                         /\ clock' = clock
    /\ steps' = [steps EXCEPT !.rate = @ + 1]
    /\ pc' = "test"
    /\ UNCHANGED <<streaming, ret, iter, stopped, current_time, diff_ns>>
    /\ UNCHANGED frameVars

----------------------------------------------------------------------------
(* The program on its own, with a clock that advances by any of Deltas *)

NowSet == {clock + d : d \in {e \in Deltas : e <= MaxClock - clock}}

LoopTest   == LoopTestUpTo(MaxFrames)
ReadClock  == ReadClockFrom(NowSet)
RateUpdate == RateUpdateFrom(NowSet)

Next == LoopTest \/ Fill \/ Present \/ ReadClock \/ RateUpdate

Spec == Init /\ [][Next]_vars

----------------------------------------------------------------------------
(* The program fed frames at a uniform rate: 50 frames in two seconds, the *)
(* k-th iteration reading the clock (line 97) at k * FrameSpacing.  The    *)
(* reading of line 105 falls between that instant and the next arrival.    *)

FrameSpacing == (2 * ns_per_second) \div 50

ArrivalSet      == {iter * FrameSpacing}
AfterArrivalSet == {current_time + d : d \in {0, 1, FrameSpacing \div 2}}

LoopTestU   == LoopTestUpTo(MaxUniformFrames)
ReadClockU  == ReadClockFrom(ArrivalSet)
RateUpdateU == RateUpdateFrom(AfterArrivalSet)

NextUniform == LoopTestU \/ Fill \/ Present \/ ReadClockU \/ RateUpdateU

SpecUniform == Init /\ [][NextUniform]_vars

----------------------------------------------------------------------------
(* The program with its flag cleared from outside ("Toggle this to turn    *)
(* stream on and off", line 39) at any moment of the run.                  *)

ExternalStop ==
    /\ pc # "done"
    /\ streaming
    /\ streaming' = FALSE
    /\ stopped' = [pc |-> pc, iter |-> iter]
    /\ UNCHANGED <<pc, ret, iter, steps>>
    /\ UNCHANGED frameVars
    /\ UNCHANGED rateVars

LoopTestX == LoopTestUpTo(MaxStopFrames)

NextMain == LoopTestX \/ Fill \/ Present \/ ReadClock \/ RateUpdate

NextExt == NextMain \/ ExternalStop

SpecExt == Init /\ [][NextExt]_vars

(* main is sequential code whose every call returns (waitKey(1) waits at   *)
(* most a millisecond): a step that can be taken is taken.                 *)
FairSpecExt == SpecExt /\ WF_vars(NextMain)

----------------------------------------------------------------------------
(* Helpers of the properties *)

RECURSIVE SumFps(_)
SumFps(s) == IF s = <<>> THEN 0 ELSE s[1].fps + SumFps(Tail(s))

Elapsed == current_time - time_of_last_fps_calculation

Reported == Len(printed)

RateStepTaken == pc = "rate" /\ pc' = "test"

AllIndices == [k \in 1 .. (cols * rows) |-> k - 1]

----------------------------------------------------------------------------
(* C1, as stated: 50 frames arriving uniformly over two seconds give       *)
(* exactly two reports, both of value 25.                                  *)
C1_TwoReportsOf25 ==
    (pc = "test" /\ iter = 50) =>
        /\ Reported = 2
        /\ printed[1].fps = 25
        /\ printed[2].fps = 25

(* C1, amended: 50 frames arriving uniformly over two seconds (the k-th    *)
(* iteration reading the clock at k * 40 ms) give exactly one report, of   *)
(* value 25, printed by the 26th iteration, and leave the tally at 24; the *)
(* second report, again of 25, is printed by the 52nd iteration.           *)
C1_OneReportOf25 ==
    /\ (pc = "test" /\ iter = 50) =>
          /\ Reported = 1
          /\ printed[1].fps = 25
          /\ printed[1].frame = 26
          /\ frames_since_last_fps_calculation = 24
    /\ (pc = "test" /\ iter = 52) =>
          /\ Reported = 2
          /\ printed[2].fps = 25
          /\ printed[2].frame = 52

C1_Witness == pc = "test" /\ iter = 50 /\ steps.rate = 50 /\ Reported = 1

(* C2: a report's value is the number N of iterations processed since the  *)
(* previous report (or the start) that did not report, for every N >= 0;   *)
(* the reporting iteration leaves the tally 0 and the report timestamp     *)
(* equal to the time now() returned on line 105, the current time.         *)
C2_ReportCountsAndResets ==
    /\ \A k \in 1 .. Reported :
          printed[k].fps = printed[k].frame - (IF k = 1 THEN 0 ELSE printed[k-1].frame) - 1
    /\ (pc = "test" /\ Reported > 0 /\ printed[Reported].frame = iter) =>
          /\ frames_since_last_fps_calculation = 0
          /\ time_of_last_fps_calculation = printed[Reported].at
          /\ time_of_last_fps_calculation = clock
          /\ time_of_last_fps_calculation >= current_time

C2_Witness ==
    /\ pc = "test"
    /\ Reported = 2
    /\ printed[1].fps = 2
    /\ printed[2].fps = 0
    /\ printed[2].frame = iter
    /\ frames_since_last_fps_calculation = 0

(* C3: an iteration whose elapsed time since the last report timestamp is  *)
(* exactly one second prints nothing and adds 1 to the tally; one whose    *)
(* elapsed time is greater than one second prints a report.                *)
C3_StrictBoundary ==
    [][RateStepTaken =>
          /\ (Elapsed = ns_per_second =>
                /\ printed' = printed
                /\ frames_since_last_fps_calculation' = frames_since_last_fps_calculation + 1)
          /\ (Elapsed > ns_per_second => Len(printed') = Len(printed) + 1)]_vars

C3_Witness ==
    /\ pc = "test"
    /\ steps.rate = iter
    /\ Elapsed = ns_per_second
    /\ frames_since_last_fps_calculation = 1
    /\ Reported = 1
    /\ printed[1].diff = ns_per_second + 1

(* C4: every value of 0 .. 255 can be written by fill: for each of them    *)
(* the generator has an output that fill turns into it.                    *)
C4_WholeRange ==
    steps.fill > 0 => \A v \in 0 .. 255 : \E r \in RandRange : Pixel(r) = v

(* C5: every fill writes exactly cols*rows samples, one to each index      *)
(* 0 .. cols*rows-1 and to no other; after it every sample is in 0 .. 255; *)
(* the frame always has exactly cols*rows samples.                         *)
C5_FillWritesWholeFrame ==
    /\ DOMAIN img_raw = FrameIndex
    /\ Cardinality(DOMAIN img_raw) = cols * rows
    /\ \A k \in FrameIndex : img_raw[k] \in 0 .. 255
    /\ steps.fill > 0 =>
          /\ Len(writes) = cols * rows
          /\ writes = AllIndices

C5_Witness ==
    /\ pc = "present"
    /\ iter = 2
    /\ writes = AllIndices
    /\ img_raw[cols * rows - 1] = 254
    /\ img_raw[0] = 0

(* C6: an iteration on which more than one second has elapsed since the    *)
(* last report timestamp prints exactly one line, the tally; any other     *)
(* iteration, and any other step, prints nothing; so consecutive lines are *)
(* stamped more than one second apart, the first more than one second      *)
(* after the start, and there are fewer lines than elapsed seconds.        *)
C6_OneLinePerSecond ==
    /\ [][IF RateStepTaken
          THEN IF Elapsed > ns_per_second
               THEN /\ Len(printed') = Len(printed) + 1
                    /\ SubSeq(printed', 1, Len(printed)) = printed
                    /\ printed'[Len(printed')].fps = frames_since_last_fps_calculation
               ELSE printed' = printed
          ELSE printed' = printed]_vars
    /\ [](\A k \in 1 .. Reported :
             printed[k].at - (IF k = 1 THEN 0 ELSE printed[k-1].at) > ns_per_second)
    /\ [](Reported > 0 => Reported * ns_per_second < clock)

C6_Witness ==
    /\ pc = "test"
    /\ Reported = 2
    /\ printed[2].at - printed[1].at = ns_per_second + 1

(* C7: the program never clears the streaming flag: the flag is true in    *)
(* every state, main never reaches its return, and it has no exit code.    *)
C7_NeverStopsItself ==
    /\ streaming
    /\ pc # "done"
    /\ ret = -1

C7_Witness ==
    /\ pc = "test"
    /\ iter = MaxFrames
    /\ steps.rate = MaxFrames
    /\ Reported >= 1
    /\ streaming

(* C8: the flag is consulted only at the iteration boundary: once it has   *)
(* been cleared from outside, the iteration under way still runs fill,     *)
(* present and the rate update, no further iteration begins, and main      *)
(* returns 0.                                                              *)
C8_CooperativeStop ==
    /\ [][/\ pc = "fill"    => pc' \in {"fill", "present"}
          /\ pc = "present" => pc' \in {"present", "clock"}
          /\ pc = "clock"   => pc' \in {"clock", "rate"}
          /\ pc = "rate"    => pc' \in {"rate", "test"}
          /\ pc = "test"    => pc' \in {"test", IF streaming THEN "fill" ELSE "done"}]_vars
    /\ [](~streaming => iter = stopped.iter)
    /\ [](pc \in {"test", "done"} =>
             steps = [fill |-> iter, present |-> iter, rate |-> iter])
    /\ [](pc = "done" => ret = 0 /\ ~streaming)
    /\ [](pc # "done" => ret = -1)
    /\ (~streaming ~> pc = "done")

C8_Witness ==
    /\ pc = "done"
    /\ ret = 0
    /\ stopped.pc = "present"
    /\ stopped.iter = 2
    /\ steps = [fill |-> 2, present |-> 2, rate |-> 2]

(* C9: only fill changes the frame buffer: the wrap-and-show step, the     *)
(* clock reading, the rate update and the loop test leave every sample     *)
(* as it was, and from present until the next fill the window shows the    *)
(* content of the latest fill.                                             *)
C9_FrameChangesOnlyInFill ==
    /\ [][pc # "fill" => img_raw' = img_raw]_vars
    /\ [](steps.present > 0 /\ steps.present = steps.fill => shown = img_raw)

C9_Witness ==
    /\ pc = "test"
    /\ iter = 2
    /\ steps.rate = 2
    /\ shown = img_raw
    /\ img_raw[0] = 254

(* C10: each iteration either adds 1 to the tally and prints nothing, or   *)
(* prints the tally and resets it to 0, never both; at every iteration     *)
(* boundary the iterations processed equal the sum of the reported values  *)
(* plus the tally plus the number of reports.                              *)
C10_FrameAccounting ==
    /\ [][RateStepTaken =>
            \/ /\ printed' = printed
               /\ frames_since_last_fps_calculation' = frames_since_last_fps_calculation + 1
            \/ /\ Len(printed') = Len(printed) + 1
               /\ printed'[Len(printed')].fps = frames_since_last_fps_calculation
               /\ frames_since_last_fps_calculation' = 0]_vars
    /\ [](pc \in {"test", "done"} =>
             iter = SumFps(printed) + frames_since_last_fps_calculation + Reported)

C10_Witness ==
    /\ pc = "test"
    /\ iter = 4
    /\ Reported = 1
    /\ printed[1].fps = 2
    /\ frames_since_last_fps_calculation = 1

====
